---- MODULE Spec2Model ----
(***************************************************************************)
(* Model of pkg/updatechecker (kots): the per-application cron registry    *)
(* (Start, Configure, Stop) and the update check itself (CheckForUpdates   *)
(* and the detached goroutine that downloads the discovered releases).     *)
(***************************************************************************)
EXTENDS Integers, Sequences, FiniteSets, TLC

\* ------------------------------------------------------------------ bounds
\* the most releases one upstream query returns
MaxUpdates == 2
\* the most calls (Configure, Stop, a change of the spec) handlers make beside Start
MaxExternalOps == 2

Apps == {"a1", "a2"}
\* the CheckForUpdates calls that may run at the same time
CallIds == {1, 2}
\* the (skipPreflights, isCLI) arguments callers pass
CallFlags == {<<TRUE, FALSE>>, <<FALSE, TRUE>>}

\* ------------------------------------------------------------------ errors
Nil == "nil"
StoreErr == "error"
Errs == {Nil, StoreErr}

\* github.com/pkg/errors Wrap: a nil error stays nil, whatever the message
Wrap(err, msg) == IF err = Nil THEN Nil ELSE msg \o ": " \o err

\* errors.New
New(msg) == msg

VARIABLES
    taskStatus,     \* the persisted "update-download" task status
    appVersions,    \* app id -> the sequences of its version records, ascending
    downstreams,    \* app id -> the current parent sequence of each downstream
    cfu,            \* call id -> the frame of one CheckForUpdates call
    batch,          \* call id -> the goroutine started at line 275 by that call
    apps,           \* app id -> the app record of the store (IsAirgap, UpdateCheckerSpec)
    jobs,           \* the jobs map (line 25): app id -> index of its cron in crons, 0 = no key
    crons,          \* the cron objects made by cron.New and put into jobs
    mtx,            \* the mutex of line 26: 0 = free, else the Configure frame holding it
    cfg,            \* frame id -> the frame of one Configure call
    start,          \* the frame of Start
    before,         \* the app's schedule when the holder of the mutex locked it
    external,       \* the calls of handlers: how many, and whether "none" was made,
                    \* all "after" Start returned, or some "during" Start
    resolver        \* lines 71-84 run on their own: a spec, the times it was resolved
                    \* at and the cron specs that gave

checkVars == <<taskStatus, appVersions, downstreams, cfu, batch>>
schedVars == <<apps, jobs, crons, mtx, cfg, start, before, external>>
vars == <<taskStatus, appVersions, downstreams, cfu, batch,
          apps, jobs, crons, mtx, cfg, start, before, external, resolver>>

\* ------------------------------------------------------------------ helpers
Last(s) == s[Len(s)]

IdleCall ==
    [pc |-> "idle", appID |-> "a1", deploy |-> FALSE, skipPreflights |-> FALSE,
     isCLI |-> FALSE, currentStatus |-> "", err |-> Nil, archiveDir |-> "none",
     removeArchiveDir |-> FALSE, updates |-> <<>>, allVersions |-> <<>>,
     t |-> Nil, downstreamList |-> <<>>, downstreamParentSequence |-> 0,
     did |-> {}, deploys |-> <<>>, at |-> "", ret |-> [n |-> 0, err |-> Nil],
     by |-> "", removals |-> <<>>]

NoBatch ==
    [pc |-> "none", index |-> 0, sequence |-> 0, attempts |-> <<>>,
     deploys |-> <<>>, reports |-> <<>>, report |-> "none"]

\* lines 183-187: the deferred func, registered once TempDir has succeeded,
\* removes the archive directory when removeArchiveDir is still true
Deferred(f) ==
    IF f.archiveDir # "none" /\ f.removeArchiveDir
    THEN [f EXCEPT !.archiveDir = "removed", !.removals = Append(@, "call")]
    ELSE f

\* the frame f after "return n, err" at the statement f.pc
Return(f, n, err) ==
    [Deferred(f) EXCEPT !.pc = "done", !.at = f.pc, !.ret = [n |-> n, err |-> err]]

\* store.ClearTaskStatus
ClearedStatus == [message |-> "", status |-> ""]

\* fmt.Sprintf("%d Updates available...", availableUpdates) with status "running"
RunningStatus(n) == [message |-> ToString(n) \o " Updates available...", status |-> "running"]

\* the sequence the store assigns to the next version record of an app
NextSequence(vs) == IF vs = <<>> THEN 0 ELSE Last(vs) + 1

\* version.DeployVersion on success: the downstreams' parent sequence becomes seq
DeployVersion(ds, seq) == [i \in DOMAIN ds |-> seq]

\* the task status when upstream.DownloadUpdate has finished an item of a batch
StagingStatus(st, isLast, err) ==
    IF ~isLast THEN st
    ELSE IF err = Nil THEN ClearedStatus
    ELSE [message |-> err, status |-> "failed"]

\* the store outlives the process: the task status an earlier process left behind
\* (cleared, or still "running" when that process died during a batch)
PersistedStatus == {ClearedStatus, RunningStatus(1)}

\* ------------------------------------------------------------------ the cron registry
AppList == <<"a1", "a2">>
\* the values of UpdateCheckerSpec users set
Cadences == {"@never", "", "@default", "0 */1 * * *", "bad"}
\* the wall-clock times (hour, minute) at which "@default" is resolved
Clock == {<<22, 30>>, <<23, 0>>}
CfgIds == {1, 2}

\* a default spec that takes the hour as it is
DefaultSpecHourOfDay(hour, minute) ==
    ToString(minute) \o " " \o ToString(hour) \o "/4 * * *"

\* lines 80-83: fmt.Sprintf("%d %d/4 * * *", t.Minute(), t.Hour() % 4)
DefaultSpec(hour, minute) ==
    ToString(minute) \o " " \o ToString(hour % 4) \o "/4 * * *"

\* the specs cron's standard parser accepts, among those that reach AddFunc
ParsesAsCron(cronSpec) ==
    cronSpec \in {"0 */1 * * *"} \cup {DefaultSpec(t[1], t[2]) : t \in Clock}

\* line 73
IsDisabled(cronSpec) == cronSpec = "@never" \/ cronSpec = ""

NoApp == [IsAirgap |-> FALSE, UpdateCheckerSpec |-> ""]
IdleCfg ==
    [pc |-> "idle", appID |-> "a1", a |-> NoApp, cronSpec |-> "", job |-> 0,
     ok |-> FALSE, ret |-> Nil, fresh |-> FALSE]
IdleStart == [pc |-> "idle", i |-> 0, errors |-> {}, ret |-> Nil]
NewCron == [entries |-> <<>>, running |-> FALSE]
NoSchedule == [job |-> 0, cron |-> NewCron]

\* the schedule of an app: its key in jobs and the cron object under it
Schedule(a) == [job |-> jobs[a], cron |-> IF jobs[a] = 0 THEN NewCron ELSE crons[jobs[a]]]

\* the wall-clock times of time.Now(): hour, minute, second
Hours == 0..23
Minutes == 0..59
Seconds == {0, 59}
Times == [hour : Hours, minute : Minutes, second : Seconds]
IdleResolver ==
    [pc |-> "idle", spec |-> "", t1 |-> [hour |-> 0, minute |-> 0, second |-> 0],
     t2 |-> [hour |-> 0, minute |-> 0, second |-> 0], r1 |-> "", r2 |-> ""]

\* lines 78-84: the cron spec handed to job.AddFunc for an enabled spec
ResolveSpec(cronSpec, hour, minute) ==
    IF cronSpec = "@default" THEN DefaultSpec(hour, minute) ELSE cronSpec

\* ------------------------------------------------------------------ Init
StoreInit ==
    /\ appVersions = [a \in Apps |-> IF a = "a1" THEN <<0, 1>> ELSE <<0>>]
    /\ downstreams = [a \in Apps |-> <<0>>]
    /\ cfu = [c \in CallIds |-> IdleCall]
    /\ batch = [c \in CallIds |-> NoBatch]

RegistryInit ==
    /\ jobs = [a \in Apps |-> 0]
    /\ crons = <<>>
    /\ mtx = 0
    /\ cfg = [k \in CfgIds |-> IdleCfg]
    /\ start = IdleStart
    /\ before = NoSchedule
    /\ external = [when |-> "none", ops |-> 0]

\* a started process with no call under way; a1 has a version that is not deployed
\* yet, a2 has its only version deployed
Init ==
    /\ taskStatus \in PersistedStatus
    /\ StoreInit
    /\ apps = [a \in Apps |-> [IsAirgap |-> FALSE, UpdateCheckerSpec |-> "@default"]]
    /\ RegistryInit
    /\ resolver = IdleResolver

\* a started process before Start has run; the installed apps have any update
\* checker spec, the first of the list may be an airgapped one
InitSched ==
    /\ taskStatus = ClearedStatus
    /\ StoreInit
    /\ apps \in [Apps -> [IsAirgap : BOOLEAN, UpdateCheckerSpec : Cadences]]
    /\ ~apps[AppList[2]].IsAirgap
    /\ RegistryInit
    /\ resolver = IdleResolver

\* ------------------------------------------------------------------ CheckForUpdates
\* a caller (an HTTP handler, the CLI or a cron entry) enters CheckForUpdates
Call(c) ==
    /\ cfu[c].pc = "idle"
    /\ \A k \in CallIds : k < c => cfu[k].pc # "idle"   \* ids are taken in order
    /\ \E a \in Apps, d \in BOOLEAN, fl \in CallFlags :
         cfu' = [cfu EXCEPT ![c] = [IdleCall EXCEPT !.pc = "getTaskStatus", !.appID = a,
                                    !.deploy = d, !.skipPreflights = fl[1], !.isCLI = fl[2],
                                    !.by = "caller"]]
    /\ UNCHANGED <<taskStatus, appVersions, downstreams, batch, schedVars, resolver>>

\* a gate that lets every call through
AlreadyRunningNever(currentStatus) == FALSE

\* line 151
AlreadyRunning(currentStatus) == currentStatus = "running"

\* lines 146-154
GetTaskStatus(c) ==
    /\ cfu[c].pc = "getTaskStatus"
    /\ \E e \in Errs :
         LET f == [cfu[c] EXCEPT !.err = e,
                                 !.currentStatus = IF e = Nil THEN taskStatus.status ELSE ""] IN
         cfu' = [cfu EXCEPT ![c] =
                   IF e # Nil THEN Return(f, 0, Wrap(e, "failed to get task status"))
                   ELSE IF AlreadyRunning(f.currentStatus) THEN Return(f, 0, Nil)
                   ELSE [f EXCEPT !.pc = "clearTaskStatus"]]
    /\ UNCHANGED <<taskStatus, appVersions, downstreams, batch, schedVars, resolver>>

\* lines 156-158
ClearTaskStatus(c) ==
    /\ cfu[c].pc = "clearTaskStatus"
    /\ \E e \in Errs :
         IF e # Nil
         THEN /\ cfu' = [cfu EXCEPT ![c] = Return(@, 0, Wrap(e, "failed to clear task status"))]
              /\ UNCHANGED taskStatus
         ELSE /\ taskStatus' = ClearedStatus
              /\ cfu' = [cfu EXCEPT ![c] = [@ EXCEPT !.pc = "getApp", !.err = Nil,
                                                     !.did = @ \cup {"clear"}]]
    /\ UNCHANGED <<appVersions, downstreams, batch, schedVars, resolver>>

\* lines 160-163
GetApp(c) ==
    /\ cfu[c].pc = "getApp"
    /\ \E e \in Errs :
         cfu' = [cfu EXCEPT ![c] =
                   IF e # Nil THEN Return(@, 0, Wrap(e, "failed to get app"))
                   ELSE [@ EXCEPT !.pc = "syncLicense", !.err = Nil]]
    /\ UNCHANGED <<taskStatus, appVersions, downstreams, batch, schedVars, resolver>>

\* lines 165-175: license.Sync, then the app is loaded again (the call uses the
\* app's id only; a release the sync makes is not counted in appVersions)
SyncLicense(c) ==
    /\ cfu[c].pc = "syncLicense"
    /\ \E e \in Errs, e2 \in Errs :
         LET f == [cfu[c] EXCEPT !.did = @ \cup {"sync"}] IN
         cfu' = [cfu EXCEPT ![c] =
                   IF e # Nil THEN Return(f, 0, Wrap(e, "failed to sync license"))
                   ELSE IF e2 # Nil THEN Return(f, 0, Wrap(e2, "failed to get app"))
                   ELSE [f EXCEPT !.pc = "tempDir", !.err = Nil]]
    /\ UNCHANGED <<taskStatus, appVersions, downstreams, batch, schedVars, resolver>>

\* lines 177-187: ioutil.TempDir and the deferred removal
TempDir(c) ==
    /\ cfu[c].pc = "tempDir"
    /\ \E e \in Errs :
         cfu' = [cfu EXCEPT ![c] =
                   IF e # Nil THEN Return(@, 0, Wrap(e, "failed to create temp dir"))
                   ELSE [@ EXCEPT !.pc = "getArchive", !.err = Nil,
                                  !.archiveDir = "exists", !.removeArchiveDir = TRUE]]
    /\ UNCHANGED <<taskStatus, appVersions, downstreams, batch, schedVars, resolver>>

\* lines 189-203: the current version's archive, its kots kinds, the latest license
GetArchive(c) ==
    /\ cfu[c].pc = "getArchive"
    /\ \E e1 \in Errs, e2 \in Errs, e3 \in Errs :
         cfu' = [cfu EXCEPT ![c] =
                   IF e1 # Nil THEN Return(@, 0, Wrap(e1, "failed to get app version archive"))
                   ELSE IF e2 # Nil THEN Return(@, 0, Wrap(e2, "failed to load kotskinds from path"))
                   ELSE IF e3 # Nil THEN Return(@, 0, Wrap(e3, "failed to get latest license"))
                   ELSE [@ EXCEPT !.pc = "getUpdates", !.err = Nil]]
    /\ UNCHANGED <<taskStatus, appVersions, downstreams, batch, schedVars, resolver>>

\* lines 205-219: kotspull.GetUpdates returns the newer releases, ascending cursors
GetUpdates(c) ==
    /\ cfu[c].pc = "getUpdates"
    /\ \E e \in Errs, n \in 0..MaxUpdates :
         LET f == [cfu[c] EXCEPT !.did = @ \cup {"query"}] IN
         cfu' = [cfu EXCEPT ![c] =
                   IF e # Nil THEN Return(f, 0, Wrap(e, "failed to get updates"))
                   ELSE [f EXCEPT !.pc = "lastUpdateAtTime", !.err = Nil,
                                  !.updates = [i \in 1..n |-> i]]]
    /\ UNCHANGED <<taskStatus, appVersions, downstreams, batch, schedVars, resolver>>

\* lines 221-231: t is the error of app.LastUpdateAtTime; the wrapped error is err
LastUpdateAtTime(c) ==
    /\ cfu[c].pc = "lastUpdateAtTime"
    /\ \E t \in Errs :
         LET f == [cfu[c] EXCEPT !.t = t] IN
         cfu' = [cfu EXCEPT ![c] =
                   IF t # Nil THEN Return(f, 0, Wrap(f.err, "failed to update last updated at time"))
                   ELSE IF Len(f.updates) = 0
                        THEN IF ~f.deploy THEN Return(f, 0, Nil)
                             ELSE [f EXCEPT !.pc = "getVersions"]
                   ELSE [f EXCEPT !.pc = "setTaskStatus"]]
    /\ UNCHANGED <<taskStatus, appVersions, downstreams, batch, schedVars, resolver>>

\* lines 233-243: version.GetVersions
GetVersions(c) ==
    /\ cfu[c].pc = "getVersions"
    /\ \E e \in Errs :
         LET f == [cfu[c] EXCEPT !.err = e,
                                 !.allVersions = IF e = Nil THEN appVersions[cfu[c].appID] ELSE <<>>] IN
         cfu' = [cfu EXCEPT ![c] =
                   IF e # Nil THEN Return(f, 0, Wrap(e, "failed to list app versions"))
                   ELSE IF Len(f.allVersions) = 0 THEN Return(f, 0, New("no versions found"))
                   ELSE [f EXCEPT !.pc = "listDownstreams"]]
    /\ UNCHANGED <<taskStatus, appVersions, downstreams, batch, schedVars, resolver>>

\* lines 245-249: store.ListDownstreamsForApp
ListDownstreams(c) ==
    /\ cfu[c].pc = "listDownstreams"
    /\ \E e \in Errs :
         LET f == [cfu[c] EXCEPT !.err = e,
                                 !.downstreamList = IF e = Nil
                                                    THEN [i \in DOMAIN downstreams[cfu[c].appID] |-> i]
                                                    ELSE <<>>] IN
         cfu' = [cfu EXCEPT ![c] =
                   IF e # Nil THEN Return(f, 0, Wrap(e, "failed to list downstreams for app"))
                   ELSE [f EXCEPT !.pc = "getParentSequence"]]
    /\ UNCHANGED <<taskStatus, appVersions, downstreams, batch, schedVars, resolver>>

\* lines 251-254: downstreams[0] panics (index out of range) on an empty list;
\* the deferred func runs as the panic unwinds the call
GetCurrentParentSequence(c) ==
    /\ cfu[c].pc = "getParentSequence"
    /\ IF Len(cfu[c].downstreamList) = 0
       THEN cfu' = [cfu EXCEPT ![c] = [Deferred(@) EXCEPT !.pc = "panic"]]
       ELSE \E e \in Errs :
              LET f == [cfu[c] EXCEPT !.err = e,
                                      !.downstreamParentSequence =
                                          IF e = Nil
                                          THEN downstreams[cfu[c].appID][cfu[c].downstreamList[1]]
                                          ELSE 0] IN
              cfu' = [cfu EXCEPT ![c] =
                        IF e # Nil
                        THEN Return(f, 0, Wrap(e, "failed to get current downstream parent sequence"))
                        ELSE [f EXCEPT !.pc = "deployLatest"]]
    /\ UNCHANGED <<taskStatus, appVersions, downstreams, batch, schedVars, resolver>>

\* line 245: allVersions[len(allVersions)-1]
LatestVersion(allVersions) == Last(allVersions)

\* a deploy that is not guarded by the parent sequence
MustDeployLatestAlways(latestSequence, parentSequence) == TRUE

\* line 256: is the latest version to be deployed?
MustDeployLatest(latestSequence, parentSequence) == latestSequence # parentSequence

\* lines 245, 256-263
DeployLatest(c) ==
    /\ cfu[c].pc = "deployLatest"
    /\ LET f == cfu[c]
           latestVersion == LatestVersion(f.allVersions) IN
       IF MustDeployLatest(latestVersion, f.downstreamParentSequence)
       THEN \E e \in Errs :
              LET g == [f EXCEPT !.deploys = Append(@, latestVersion),
                                 !.did = @ \cup {"deploy"}] IN
              /\ cfu' = [cfu EXCEPT ![c] =
                           IF e # Nil THEN Return(g, 0, Wrap(e, "failed to deploy latest version"))
                           ELSE Return(g, 0, Nil)]
              /\ downstreams' = IF e # Nil THEN downstreams
                                ELSE [downstreams EXCEPT ![f.appID] = DeployVersion(@, latestVersion)]
       ELSE /\ cfu' = [cfu EXCEPT ![c] = Return(f, 0, Nil)]
            /\ UNCHANGED downstreams
    /\ UNCHANGED <<taskStatus, appVersions, batch, schedVars, resolver>>

\* a status write that leaves "running" behind also when it reports an error
SetTaskStatusKept(c) ==
    /\ cfu[c].pc = "setTaskStatus"
    /\ \E e \in Errs :
         /\ taskStatus' = RunningStatus(Len(cfu[c].updates))
         /\ cfu' = [cfu EXCEPT ![c] =
                      IF e # Nil THEN Return(@, 0, Wrap(e, "failed to set task status"))
                      ELSE [@ EXCEPT !.pc = "spawn", !.err = Nil, !.did = @ \cup {"set"}]]
    /\ UNCHANGED <<appVersions, downstreams, batch, schedVars, resolver>>

\* a call that starts its goroutine also when the status write failed
SetTaskStatusIgnored(c) ==
    /\ cfu[c].pc = "setTaskStatus"
    /\ \E e \in Errs :
         /\ taskStatus' = IF e # Nil THEN taskStatus ELSE RunningStatus(Len(cfu[c].updates))
         /\ cfu' = [cfu EXCEPT ![c] =
                      [@ EXCEPT !.pc = "spawn", !.err = e,
                                !.did = IF e # Nil THEN @ ELSE @ \cup {"set"}]]
    /\ UNCHANGED <<appVersions, downstreams, batch, schedVars, resolver>>

\* lines 266-272
SetTaskStatus(c) ==
    /\ cfu[c].pc = "setTaskStatus"
    /\ \E e \in Errs :
         IF e # Nil
         THEN /\ cfu' = [cfu EXCEPT ![c] = Return(@, 0, Wrap(e, "failed to set task status"))]
              /\ UNCHANGED taskStatus
         ELSE /\ taskStatus' = RunningStatus(Len(cfu[c].updates))
              /\ cfu' = [cfu EXCEPT ![c] = [@ EXCEPT !.pc = "spawn", !.err = Nil,
                                                     !.did = @ \cup {"set"}]]
    /\ UNCHANGED <<appVersions, downstreams, batch, schedVars, resolver>>

\* a call that keeps removeArchiveDir true when it starts the goroutine
SpawnKeepsOwnership(c) ==
    /\ cfu[c].pc = "spawn"
    /\ batch' = [batch EXCEPT ![c] = [NoBatch EXCEPT !.pc = "download", !.index = 1]]
    /\ cfu' = [cfu EXCEPT ![c] = Return(@, Len(@.updates), Nil)]
    /\ UNCHANGED <<taskStatus, appVersions, downstreams, schedVars, resolver>>

\* lines 274-275, 300-302: the goroutine is started and the call returns the count
Spawn(c) ==
    /\ cfu[c].pc = "spawn"
    /\ batch' = [batch EXCEPT ![c] = [NoBatch EXCEPT !.pc = "download", !.index = 1]]
    /\ cfu' = [cfu EXCEPT ![c] = Return([@ EXCEPT !.removeArchiveDir = FALSE],
                                        Len(@.updates), Nil)]
    /\ UNCHANGED <<taskStatus, appVersions, downstreams, schedVars, resolver>>

\* ------------------------------------------------------------------ the staging goroutine
\* the range loop of line 277 moves to the next update, or ends (then the defer runs)
NextItem(b, len) ==
    IF b.index < len THEN [b EXCEPT !.index = @ + 1, !.pc = "download"]
    ELSE [b EXCEPT !.pc = "cleanup"]

\* a loop that a failed download ends
OnDownloadErrorBreak(b, len) == [b EXCEPT !.pc = "cleanup"]

\* a failed last download falls back to a deploy of the release staged before it
OnDownloadErrorDeployStaged(b, len) ==
    IF b.index = len /\ \E i \in DOMAIN b.attempts : b.attempts[i].err = Nil
    THEN [b EXCEPT !.pc = "deploy"]
    ELSE NextItem(b, len)

\* lines 280-283: a failed download is logged and the loop continues
OnDownloadError(b, len) == NextItem(b, len)

\* a deploy after every downloaded item
IsDeployItemAny(deploy, index, len) == deploy

\* line 285: deploy && index == len(updates)-1 (index counts from 1 here)
IsDeployItem(deploy, index, len) == deploy /\ index = len

\* lines 277-285: upstream.DownloadUpdate of the update at batch[c].index
Download(c) ==
    /\ batch[c].pc = "download"
    /\ LET f == cfu[c]
           b == batch[c]
           len == Len(f.updates)
           seq == NextSequence(appVersions[f.appID]) IN
       \E e \in Errs :
         /\ taskStatus' = StagingStatus(taskStatus, b.index = len, e)
         /\ IF e # Nil
            THEN /\ batch' = [batch EXCEPT ![c] = OnDownloadError(
                        [b EXCEPT !.attempts = Append(@, [cursor |-> f.updates[b.index],
                                                          err |-> e, sequence |-> -1])], len)]
                 /\ UNCHANGED appVersions
            ELSE /\ appVersions' = [appVersions EXCEPT ![f.appID] = Append(@, seq)]
                 /\ LET g == [b EXCEPT !.sequence = seq,
                                       !.attempts = Append(@, [cursor |-> f.updates[b.index],
                                                               err |-> Nil, sequence |-> seq])] IN
                    batch' = [batch EXCEPT ![c] =
                                IF IsDeployItem(f.deploy, b.index, len)
                                THEN [g EXCEPT !.pc = "deploy"]
                                ELSE NextItem(g, len)]
    /\ UNCHANGED <<downstreams, cfu, schedVars, resolver>>

\* a deploy whose failure skips the report
DeployStagedReportOnSuccess(c) ==
    /\ batch[c].pc = "deploy"
    /\ \E e \in Errs :
         /\ downstreams' = IF e # Nil THEN downstreams
                           ELSE [downstreams EXCEPT ![cfu[c].appID] = DeployVersion(@, batch[c].sequence)]
         /\ batch' = [batch EXCEPT ![c] =
                        IF e # Nil
                        THEN NextItem([@ EXCEPT !.deploys = Append(@, batch[c].sequence)],
                                      Len(cfu[c].updates))
                        ELSE [@ EXCEPT !.pc = "report",
                                       !.deploys = Append(@, batch[c].sequence)]]
    /\ UNCHANGED <<taskStatus, appVersions, cfu, schedVars, resolver>>

\* lines 286-289: version.DeployVersion of the downloaded sequence; an error is logged
DeployStaged(c) ==
    /\ batch[c].pc = "deploy"
    /\ \E e \in Errs :
         downstreams' = IF e # Nil THEN downstreams
                        ELSE [downstreams EXCEPT ![cfu[c].appID] = DeployVersion(@, batch[c].sequence)]
    /\ batch' = [batch EXCEPT ![c] = [@ EXCEPT !.pc = "report",
                                               !.deploys = Append(@, batch[c].sequence)]]
    /\ UNCHANGED <<taskStatus, appVersions, cfu, schedVars, resolver>>

\* lines 291-298: the report goroutine is started, the loop goes on
Report(c) ==
    /\ batch[c].pc = "report"
    /\ batch' = [batch EXCEPT ![c] = NextItem(
                    [@ EXCEPT !.reports = Append(@, [sequence |-> batch[c].sequence,
                                                     skipPreflights |-> cfu[c].skipPreflights,
                                                     isCLI |-> cfu[c].isCLI]),
                              !.report = "running"],
                    Len(cfu[c].updates))]
    /\ UNCHANGED <<taskStatus, appVersions, downstreams, cfu, schedVars, resolver>>

\* lines 292-297: the report goroutine calls reporting.ReportAppInfo; an error
\* is logged
ReportAppInfo(c) ==
    /\ batch[c].report = "running"
    /\ \E e \in Errs :
         batch' = [batch EXCEPT ![c] = [@ EXCEPT !.report = IF e = Nil THEN "sent" ELSE "failed"]]
    /\ UNCHANGED <<taskStatus, appVersions, downstreams, cfu, schedVars, resolver>>

\* line 276: defer os.RemoveAll(archiveDir)
Cleanup(c) ==
    /\ batch[c].pc = "cleanup"
    /\ batch' = [batch EXCEPT ![c] = [@ EXCEPT !.pc = "done"]]
    /\ cfu' = [cfu EXCEPT ![c] = [@ EXCEPT !.archiveDir = "removed",
                                           !.removals = Append(@, "goroutine")]]
    /\ UNCHANGED <<taskStatus, appVersions, downstreams, schedVars, resolver>>

Next ==
    \/ \E c \in CallIds : Call(c)
    \/ \E c \in CallIds : GetTaskStatus(c)
    \/ \E c \in CallIds : ClearTaskStatus(c)
    \/ \E c \in CallIds : GetApp(c)
    \/ \E c \in CallIds : SyncLicense(c)
    \/ \E c \in CallIds : TempDir(c)
    \/ \E c \in CallIds : GetArchive(c)
    \/ \E c \in CallIds : GetUpdates(c)
    \/ \E c \in CallIds : LastUpdateAtTime(c)
    \/ \E c \in CallIds : GetVersions(c)
    \/ \E c \in CallIds : ListDownstreams(c)
    \/ \E c \in CallIds : GetCurrentParentSequence(c)
    \/ \E c \in CallIds : DeployLatest(c)
    \/ \E c \in CallIds : SetTaskStatus(c)
    \/ \E c \in CallIds : Spawn(c)
    \/ \E c \in CallIds : Download(c)
    \/ \E c \in CallIds : DeployStaged(c)
    \/ \E c \in CallIds : Report(c)
    \/ \E c \in CallIds : ReportAppInfo(c)
    \/ \E c \in CallIds : Cleanup(c)

Spec == Init /\ [][Next]_vars

\* ------------------------------------------------------------------ Configure, Stop, Start
\* the frame after Configure returns err; the deferred mtx.Unlock is with the caller.
\* fresh: the call has changed the registry with the spec the store still holds
ConfigureReturn(f, err) ==
    [IdleCfg EXCEPT !.pc = "done", !.appID = f.appID, !.cronSpec = f.cronSpec,
                    !.ok = f.ok, !.ret = err,
                    !.fresh = f.fresh /\ err = Nil /\ f.pc \in {"resolve", "start"}]

\* a handler may make one more call
MayAct == external.ops < MaxExternalOps

\* external after one more call of a handler
ExternalAct ==
    [when |-> IF start.pc = "done" /\ external.when # "during" THEN "after" ELSE "during",
     ops |-> external.ops + 1]

\* a Stop that stops the cron of every app
StoppedAll(a) == [j \in DOMAIN crons |-> [crons[j] EXCEPT !.running = FALSE]]

\* lines 130-140: Stop stops the cron of the app if jobs has one
Stopped(a) == IF jobs[a] # 0 THEN [crons EXCEPT ![jobs[a]].running = FALSE] ELSE crons

\* a mutex that never blocks
MutexFreeAlways(m) == TRUE

\* line 68: mtx.Lock() goes on when no one holds the mutex
MutexFree(m) == m = 0

\* Start is called when the process starts, before any handler is served
Serving == start.pc # "idle" /\ MayAct

\* an API handler calls Configure(a); frame 1 is the one Start calls Configure in
ConfigureCall(k, a) ==
    /\ Serving
    /\ cfg[k].pc \in {"idle", "done"}
    /\ k = 1 => start.pc = "done"
    /\ cfg' = [cfg EXCEPT ![k] = [IdleCfg EXCEPT !.pc = "getApp", !.appID = a]]
    /\ external' = ExternalAct
    /\ UNCHANGED <<apps, jobs, crons, mtx, start, before, checkVars, resolver>>

\* lines 55-66
ConfigureGetApp(k) ==
    /\ cfg[k].pc = "getApp"
    /\ \E e \in Errs :
         LET f == [cfg[k] EXCEPT !.a = IF e = Nil THEN apps[cfg[k].appID] ELSE NoApp,
                                 !.fresh = e = Nil] IN
         cfg' = [cfg EXCEPT ![k] =
                   IF e # Nil THEN ConfigureReturn(f, Wrap(e, "failed to get app"))
                   ELSE IF f.a.IsAirgap THEN ConfigureReturn(f, Nil)
                   ELSE [f EXCEPT !.pc = "lock"]]
    /\ UNCHANGED <<apps, jobs, crons, mtx, start, before, external, checkVars, resolver>>

\* lines 68-69
ConfigureLock(k) ==
    /\ cfg[k].pc = "lock"
    /\ MutexFree(mtx)
    /\ mtx' = k
    /\ before' = Schedule(cfg[k].appID)
    /\ cfg' = [cfg EXCEPT ![k] = [@ EXCEPT !.pc = "resolve"]]
    /\ UNCHANGED <<apps, jobs, crons, start, external, checkVars, resolver>>

\* lines 71-84: a disabled spec stops the job and returns; "@default" is resolved
ConfigureResolve(k) ==
    /\ cfg[k].pc = "resolve"
    /\ LET f == cfg[k]
           cronSpec == f.a.UpdateCheckerSpec IN
       IF IsDisabled(cronSpec)
       THEN /\ crons' = Stopped(f.appID)
            /\ cfg' = [cfg EXCEPT ![k] = ConfigureReturn([f EXCEPT !.cronSpec = cronSpec], Nil)]
            /\ mtx' = 0
            /\ before' = NoSchedule
       ELSE /\ \E t \in Clock :
                 cfg' = [cfg EXCEPT ![k] =
                           [f EXCEPT !.pc = "lookup", !.a = NoApp,
                                     !.cronSpec = ResolveSpec(cronSpec, t[1], t[2])]]
            /\ UNCHANGED <<crons, mtx, before>>
    /\ UNCHANGED <<apps, jobs, start, external, checkVars, resolver>>

\* lines 86-98: an existing job loses its entries, else a new cron is made
ConfigureLookup(k) ==
    /\ cfg[k].pc = "lookup"
    /\ LET a == cfg[k].appID IN
       IF jobs[a] # 0
       THEN /\ crons' = [crons EXCEPT ![jobs[a]].entries = <<>>]
            /\ cfg' = [cfg EXCEPT ![k] = [@ EXCEPT !.pc = "addFunc", !.job = jobs[a], !.ok = TRUE]]
       ELSE /\ cfg' = [cfg EXCEPT ![k] = [@ EXCEPT !.pc = "addFunc", !.job = 0, !.ok = FALSE]]
            /\ UNCHANGED crons
    /\ UNCHANGED <<apps, jobs, mtx, start, before, external, checkVars, resolver>>

\* lines 100-121: job.AddFunc parses the spec and adds the entry
ConfigureAddFunc(k) ==
    /\ cfg[k].pc = "addFunc"
    /\ LET f == cfg[k] IN
       IF ~ParsesAsCron(f.cronSpec)
       THEN /\ cfg' = [cfg EXCEPT ![k] = ConfigureReturn(f, Wrap("parse error", "failed to add func"))]
            /\ mtx' = 0
            /\ before' = NoSchedule
            /\ UNCHANGED crons
       ELSE /\ cfg' = [cfg EXCEPT ![k] = [f EXCEPT !.pc = "start"]]
            /\ crons' = IF f.ok
                        THEN [crons EXCEPT ![f.job].entries =
                                 Append(@, [spec |-> f.cronSpec, appID |-> f.appID])]
                        ELSE crons
            /\ UNCHANGED <<mtx, before>>
    /\ UNCHANGED <<apps, jobs, start, external, checkVars, resolver>>

\* lines 123-126: job.Start(), jobs[a.ID] = job, return nil
ConfigureStart(k) ==
    /\ cfg[k].pc = "start"
    /\ LET f == cfg[k] IN
       /\ crons' = IF f.ok THEN [crons EXCEPT ![f.job].running = TRUE]
                   ELSE Append(crons, [entries |-> <<[spec |-> f.cronSpec, appID |-> f.appID]>>,
                                       running |-> TRUE])
       /\ jobs' = [jobs EXCEPT ![f.appID] = IF f.ok THEN f.job ELSE Len(crons) + 1]
       /\ cfg' = [cfg EXCEPT ![k] = ConfigureReturn(f, Nil)]
    /\ mtx' = 0
    /\ before' = NoSchedule
    /\ UNCHANGED <<apps, start, external, checkVars, resolver>>

\* lines 130-140: Stop(a) called by an API handler
StopCall(a) ==
    /\ Serving
    /\ crons' = Stopped(a)
    /\ external' = ExternalAct
    /\ UNCHANGED <<apps, jobs, mtx, cfg, start, before, checkVars, resolver>>

\* a user sets the update checker spec of an app in the store; the spec a
\* Configure call for the app has read before is the store's no longer
SetUpdateCheckerSpec(a, c) ==
    /\ Serving
    /\ apps[a].UpdateCheckerSpec # c
    /\ apps' = [apps EXCEPT ![a].UpdateCheckerSpec = c]
    /\ cfg' = [k \in CfgIds |-> IF cfg[k].appID = a THEN [cfg[k] EXCEPT !.fresh = FALSE]
                                 ELSE cfg[k]]
    /\ external' = ExternalAct
    /\ UNCHANGED <<jobs, crons, mtx, start, before, checkVars, resolver>>

\* lines 30-36
StartList ==
    /\ start.pc = "idle"
    /\ \E e \in Errs :
         start' = IF e # Nil
                  THEN [start EXCEPT !.pc = "done", !.ret = Wrap(e, "failed to list installed apps")]
                  ELSE [start EXCEPT !.pc = "loop", !.i = 1]
    /\ UNCHANGED <<apps, jobs, crons, mtx, cfg, before, external, checkVars, resolver>>

\* lines 38-42, 47: the next app of the list: skipped when airgapped, else configured
StartLoop ==
    /\ start.pc = "loop"
    /\ IF start.i > Len(AppList)
       THEN /\ start' = [start EXCEPT !.pc = "done", !.ret = Nil]
            /\ UNCHANGED cfg
       ELSE IF apps[AppList[start.i]].IsAirgap
       THEN /\ start' = [start EXCEPT !.i = @ + 1]
            /\ UNCHANGED cfg
       ELSE /\ start' = [start EXCEPT !.pc = "configure"]
            /\ cfg' = [cfg EXCEPT ![1] = [IdleCfg EXCEPT !.pc = "getApp", !.appID = AppList[start.i]]]
    /\ UNCHANGED <<apps, jobs, crons, mtx, before, external, checkVars, resolver>>

\* a loop that the first failed Configure ends
AfterConfigureBreak(st, err) ==
    IF err # Nil THEN [st EXCEPT !.pc = "done", !.errors = @ \cup {AppList[st.i]}]
    ELSE [st EXCEPT !.pc = "loop", !.i = @ + 1]

\* lines 42-45: the error of Configure is logged and the loop goes on
AfterConfigure(st, err) ==
    [st EXCEPT !.pc = "loop", !.i = @ + 1,
               !.errors = IF err # Nil THEN @ \cup {AppList[st.i]} ELSE @]

\* lines 42-45: Configure has returned to Start
StartConfigured ==
    /\ start.pc = "configure"
    /\ cfg[1].pc = "done"
    /\ start' = AfterConfigure(start, cfg[1].ret)
    /\ UNCHANGED <<apps, jobs, crons, mtx, cfg, before, external, checkVars, resolver>>

NextSched ==
    \/ StartList
    \/ StartLoop
    \/ StartConfigured
    \/ \E k \in CfgIds, a \in Apps : ConfigureCall(k, a)
    \/ \E k \in CfgIds : ConfigureGetApp(k)
    \/ \E k \in CfgIds : ConfigureLock(k)
    \/ \E k \in CfgIds : ConfigureResolve(k)
    \/ \E k \in CfgIds : ConfigureLookup(k)
    \/ \E k \in CfgIds : ConfigureAddFunc(k)
    \/ \E k \in CfgIds : ConfigureStart(k)
    \/ \E a \in Apps : StopCall(a)
    \/ \E a \in Apps, c \in Cadences : SetUpdateCheckerSpec(a, c)

SpecSched == InitSched /\ [][NextSched]_vars

\* ------------------------------------------------------------------ apps with empty lists
\* what the store may hold for a2: a version but no downstream, or a
\* downstream but no version record; a1 is as in StoreInit
BareStores ==
    {[versions |-> <<0>>, downstreams |-> <<>>],
     [versions |-> <<>>, downstreams |-> <<0>>]}

InitBare ==
    /\ taskStatus = ClearedStatus
    /\ \E st \in BareStores :
         /\ appVersions = [a \in Apps |-> IF a = "a1" THEN <<0, 1>> ELSE st.versions]
         /\ downstreams = [a \in Apps |-> IF a = "a1" THEN <<0>> ELSE st.downstreams]
    /\ cfu = [c \in CallIds |-> IdleCall]
    /\ batch = [c \in CallIds |-> NoBatch]
    /\ apps = [a \in Apps |-> [IsAirgap |-> FALSE, UpdateCheckerSpec |-> "@default"]]
    /\ RegistryInit
    /\ resolver = IdleResolver

SpecBare == InitBare /\ [][Next]_vars

\* ------------------------------------------------------------------ the cron entry fires
\* the registry after Start has configured a1 (spec "@default", resolved at
\* 22:30) and then a2 (spec "@never"): a1 has a started cron with one entry
TickRegistry ==
    /\ apps = [a \in Apps |-> [IsAirgap |-> FALSE,
                               UpdateCheckerSpec |-> IF a = "a1" THEN "@default" ELSE "@never"]]
    /\ jobs = [a \in Apps |-> IF a = "a1" THEN 1 ELSE 0]
    /\ crons = <<[entries |-> <<[spec |-> DefaultSpec(22, 30), appID |-> "a1"]>>,
                 running |-> TRUE]>>
    /\ mtx = 0
    /\ cfg = [k \in CfgIds |-> IF k = 1
                               THEN [IdleCfg EXCEPT !.pc = "done", !.appID = "a2",
                                                    !.cronSpec = "@never", !.fresh = TRUE]
                               ELSE IdleCfg]
    /\ start = [pc |-> "done", i |-> Len(AppList) + 1, errors |-> {}, ret |-> Nil]
    /\ before = NoSchedule
    /\ external = [when |-> "none", ops |-> 0]

InitTick ==
    /\ taskStatus = ClearedStatus
    /\ StoreInit
    /\ TickRegistry
    /\ resolver = IdleResolver

\* entries of started crons fire: the apps a cron may call CheckForUpdates for
TickReady(a) ==
    \E j \in DOMAIN crons :
        crons[j].running /\ \E i \in DOMAIN crons[j].entries : crons[j].entries[i].appID = a

\* a callback that asks for a deploy
TickArgsDeploy == [deploy |-> TRUE, skipPreflights |-> FALSE, isCLI |-> FALSE]

\* line 105: CheckForUpdates(jobAppID, false, false, false)
TickArgs == [deploy |-> FALSE, skipPreflights |-> FALSE, isCLI |-> FALSE]

\* lines 102-118: the entry of app a fires and its func enters CheckForUpdates;
\* the func only logs what the call returns (lines 106-117)
Tick(c, a) ==
    /\ TickReady(a)
    /\ cfu[c].pc = "idle"
    /\ \A k \in CallIds : k < c => cfu[k].pc # "idle"
    /\ cfu' = [cfu EXCEPT ![c] = [IdleCall EXCEPT !.pc = "getTaskStatus", !.appID = a,
                                  !.deploy = TickArgs.deploy,
                                  !.skipPreflights = TickArgs.skipPreflights,
                                  !.isCLI = TickArgs.isCLI, !.by = "tick"]]
    /\ UNCHANGED <<taskStatus, appVersions, downstreams, batch, schedVars, resolver>>

NextTick ==
    \/ Next
    \/ \E c \in CallIds, a \in Apps : Tick(c, a)

SpecTick == InitTick /\ [][NextTick]_vars

\* ------------------------------------------------------------------ the spec resolver alone
InitResolve ==
    /\ taskStatus = ClearedStatus
    /\ StoreInit
    /\ apps = [a \in Apps |-> [IsAirgap |-> FALSE, UpdateCheckerSpec |-> "@default"]]
    /\ RegistryInit
    /\ resolver = IdleResolver

\* the minute after the minute of t
NextMinute(t) ==
    [hour |-> IF t.minute = 59 THEN (t.hour + 1) % 24 ELSE t.hour,
     minute |-> (t.minute + 1) % 60, second |-> 0]

\* the times of a second call: later in the minute of t, or as the next minute begins
Soon(t) ==
    {u \in Times : u.hour = t.hour /\ u.minute = t.minute /\ u.second >= t.second}
        \cup {NextMinute(t)}

\* lines 71-84 for an enabled spec, at any time of the day
ResolveOnce ==
    /\ resolver.pc = "idle"
    /\ \E c \in Cadences, t \in Times :
         /\ ~IsDisabled(c)
         /\ resolver' = [resolver EXCEPT !.pc = "once", !.spec = c, !.t1 = t, !.t2 = t,
                                         !.r1 = ResolveSpec(c, t.hour, t.minute)]
    /\ UNCHANGED <<checkVars, schedVars>>

\* lines 71-84 for the same spec, a moment later
ResolveAgain ==
    /\ resolver.pc = "once"
    /\ \E t \in Soon(resolver.t1) :
         resolver' = [resolver EXCEPT !.pc = "twice", !.t2 = t,
                                      !.r2 = ResolveSpec(resolver.spec, t.hour, t.minute)]
    /\ UNCHANGED <<checkVars, schedVars>>

NextResolve ==
    \/ ResolveOnce
    \/ ResolveAgain

SpecResolve == InitResolve /\ [][NextResolve]_vars

\* ------------------------------------------------------------------ properties of CheckForUpdates
Max(S) == CHOOSE x \in S : \A y \in S : y <= x
Range(s) == {s[i] : i \in DOMAIN s}

\* the goroutines that still have a release to download
Downloading == {c \in CallIds : batch[c].pc = "download"}

\* C1: at most one staging batch is downloading releases at any time, whatever
\* the interleaving of the CheckForUpdates calls and whatever their applications
C1_AtMostOneBatch == Cardinality(Downloading) <= 1

\* C2: a call that read the task status "running" has returned (0, nil) and has
\* done nothing else: no status write, no license sync, no upstream query, no
\* archive directory, no deploy, no goroutine
C2_RunningGateReturns ==
    \A c \in CallIds :
        cfu[c].currentStatus = "running" =>
            /\ cfu[c].pc = "done"
            /\ cfu[c].ret = [n |-> 0, err |-> Nil]
            /\ cfu[c].did = {}
            /\ cfu[c].deploys = <<>>
            /\ cfu[c].archiveDir = "none"
            /\ batch[c].pc = "none"

\* a call met the gate closed while another call's goroutine was downloading
C2_Witness ==
    \E c \in CallIds :
        /\ cfu[c].pc = "done"
        /\ cfu[c].currentStatus = "running"
        /\ \E k \in CallIds \ {c} : batch[k].pc = "download"

\* the status is "running" and no call of this process has set it: it was left
\* by a process that died during a batch
LeftoverRunning ==
    /\ taskStatus.status = "running"
    /\ \A c \in CallIds : "set" \notin cfu[c].did

\* C3 as claimed: a call that observed the leftover "running" status has cleared
\* it (and goes on with discovery)
C3_StaleStatusCleared ==
    \A c \in CallIds :
        (LeftoverRunning /\ cfu[c].pc = "done" /\ cfu[c].currentStatus = "running")
            => "clear" \in cfu[c].did

\* C3 amended: no step of CheckForUpdates changes a leftover "running" status or
\* starts a goroutine while it stands; the status stays "running"
C3_StaleStatusStays ==
    [][LeftoverRunning =>
         /\ LeftoverRunning'
         /\ taskStatus' = taskStatus
         /\ \A c \in CallIds : batch'[c].pc = "none" /\ cfu'[c].pc \in {"idle", "getTaskStatus", "done"}]_vars

\* every call has met the leftover "running" status and has returned
C3_Witness ==
    /\ LeftoverRunning
    /\ \A c \in CallIds : cfu[c].pc = "done" /\ cfu[c].currentStatus = "running"

\* C4: a call in which app.LastUpdateAtTime failed returns a non-nil error
C4_LastCheckedFailureReturned ==
    \A c \in CallIds :
        (cfu[c].pc = "done" /\ cfu[c].t # Nil) => cfu[c].ret.err # Nil

\* C5: the goroutine attempts the updates one by one in the order of the query,
\* each once, a failed download does not end the loop, and the sequences of the
\* downloaded updates ascend
C5_EveryUpdateAttemptedInOrder ==
    \A c \in CallIds :
        LET a == batch[c].attempts
            u == cfu[c].updates IN
        /\ Len(a) <= Len(u)
        /\ \A i \in DOMAIN a : a[i].cursor = u[i]
        /\ batch[c].pc = "download" => Len(a) = batch[c].index - 1
        /\ batch[c].pc \in {"deploy", "report", "cleanup", "done"} => Len(a) = Len(u)
        /\ \A i, j \in DOMAIN a :
               (i < j /\ a[i].err = Nil /\ a[j].err = Nil) => a[i].sequence < a[j].sequence

\* a finished batch of MaxUpdates updates whose first download failed and whose
\* last one succeeded
C5_Witness ==
    \E c \in CallIds :
        /\ batch[c].pc = "done"
        /\ Len(cfu[c].updates) = MaxUpdates
        /\ Len(batch[c].attempts) = MaxUpdates
        /\ batch[c].attempts[1].err # Nil
        /\ batch[c].attempts[MaxUpdates].err = Nil

\* C6: a goroutine starts at most one deploy, only for a call with deploy set,
\* and only for the sequence of the downloaded last update of the batch
C6_DeployOnlyLastOfBatch ==
    \A c \in CallIds :
        LET a == batch[c].attempts
            d == batch[c].deploys IN
        /\ Len(d) <= 1
        /\ d # <<>> =>
              /\ cfu[c].deploy
              /\ Len(a) = Len(cfu[c].updates)
              /\ Last(a).err = Nil
              /\ d[1] = Last(a).sequence

\* a finished batch of MaxUpdates updates that deployed its last one
C6_Witness ==
    \E c \in CallIds :
        /\ batch[c].pc = "done"
        /\ Len(cfu[c].updates) = MaxUpdates
        /\ Len(batch[c].deploys) = 1

\* a returned call whose upstream query gave no release and whose last-checked
\* write succeeded
ZeroReleases(c) ==
    /\ cfu[c].pc = "done"
    /\ cfu[c].updates = <<>>
    /\ cfu[c].t = Nil
    /\ cfu[c].at \in {"lastUpdateAtTime", "getVersions", "listDownstreams",
                      "getParentSequence", "deployLatest"}

\* C7: with no release found, a call without deploy returns (0, nil) and starts
\* no deploy; a call with deploy that has read the versions and the parent
\* sequence of the first downstream starts one deploy, of the highest version
\* sequence, exactly when that sequence differs from the parent sequence; no
\* other deploy is started on this path
C7_ZeroReleasesDeploy ==
    \A c \in CallIds :
        ZeroReleases(c) =>
            LET f == cfu[c] IN
            /\ batch[c].pc = "none"
            /\ ~f.deploy => f.deploys = <<>> /\ f.ret = [n |-> 0, err |-> Nil]
            /\ (f.deploy /\ f.at = "deployLatest") =>
                   f.deploys = IF Max(Range(f.allVersions)) # f.downstreamParentSequence
                               THEN <<Max(Range(f.allVersions))>> ELSE <<>>
            /\ f.at # "deployLatest" => f.deploys = <<>>

\* one call found nothing and deployed the highest sequence, another found
\* nothing and found the highest sequence deployed already
C7_Witness ==
    \E c, k \in CallIds :
        /\ ZeroReleases(c) /\ cfu[c].deploy /\ cfu[c].at = "deployLatest"
        /\ Len(cfu[c].deploys) = 1
        /\ ZeroReleases(k) /\ cfu[k].deploy /\ cfu[k].at = "deployLatest"
        /\ cfu[k].deploys = <<>>

\* ------------------------------------------------------------------ properties of the registry
\* the cron objects that hold an entry of app a
CronsOf(a) ==
    {j \in DOMAIN crons : \E i \in DOMAIN crons[j].entries : crons[j].entries[i].appID = a}

\* this step is the return of the Configure call of frame k
Returns(k) == cfg[k].pc # "done" /\ cfg'[k].pc = "done"

\* this step is the return of nil by a Configure call that read an enabled spec
Configured(k) ==
    Returns(k) /\ cfg'[k].ret = Nil /\ cfg[k].pc = "start"

\* C8: no cron ever holds two entries and no app ever has entries in two crons;
\* when a Configure call with an enabled spec returns nil, the jobs map has the
\* app's cron, it holds exactly one entry and it is the only cron of the app
C8_OneTriggerOneJob ==
    /\ [](\A a \in Apps : Cardinality(CronsOf(a)) <= 1)
    /\ [](\A j \in DOMAIN crons : Len(crons[j].entries) <= 1)
    /\ [][\A k \in CfgIds :
            Configured(k) =>
              LET a == cfg[k].appID IN
              /\ jobs'[a] # 0
              /\ Len(crons'[jobs'[a]].entries) = 1
              /\ CronsOf(a)' = {jobs'[a]}]_vars

\* two Configure calls for one app, the second on the job the first made, have
\* returned nil with the same enabled spec
C8_Witness ==
    /\ \A k \in CfgIds : cfg[k].pc = "done" /\ cfg[k].ret = Nil
    /\ cfg[1].appID = cfg[2].appID
    /\ cfg[1].cronSpec = cfg[2].cronSpec
    /\ ~IsDisabled(cfg[1].cronSpec)
    /\ \E k \in CfgIds : cfg[k].ok
    /\ Len(crons[jobs[cfg[1].appID]].entries) = 1

\* C9: when Start has returned nil and no handler has made a call yet, no app
\* that is airgapped or has the spec "@never" or "" has a job, and every other
\* app whose Configure did not fail has a started job with exactly one entry,
\* whatever happened to the apps before it in the list; and whenever a
\* Configure call with an enabled spec returns nil, the app's job is started
\* and holds the one entry with the spec that call resolved
C9_StartAndReconfigure ==
    /\ []((start.pc = "done" /\ start.ret = Nil /\ external.when = "none") =>
            \A a \in Apps :
              IF apps[a].IsAirgap \/ apps[a].UpdateCheckerSpec \in {"@never", ""}
              THEN jobs[a] = 0 /\ CronsOf(a) = {}
              ELSE IF a \in start.errors THEN jobs[a] = 0
              ELSE /\ jobs[a] # 0
                   /\ crons[jobs[a]].running
                   /\ Len(crons[jobs[a]].entries) = 1)
    /\ [][\A k \in CfgIds :
            Configured(k) =>
              LET a == cfg[k].appID IN
              /\ crons'[jobs'[a]].running
              /\ crons'[jobs'[a]].entries = <<[spec |-> cfg[k].cronSpec, appID |-> a]>>]_vars

\* Start left an app without a job and without an error (its spec was "@never"
\* or ""); after Start the spec was set to "0 */1 * * *" and Configure made the
\* job with that one entry
C9_Witness ==
    /\ start.pc = "done" /\ start.ret = Nil
    /\ external = [when |-> "after", ops |-> 2]
    /\ \E k \in CfgIds :
         LET a == cfg[k].appID IN
         /\ cfg[k].pc = "done" /\ cfg[k].ret = Nil /\ ~cfg[k].ok
         /\ cfg[k].cronSpec = "0 */1 * * *"
         /\ apps[a].UpdateCheckerSpec = "0 */1 * * *"
         /\ ~apps[a].IsAirgap /\ a \notin start.errors
         /\ jobs[a] # 0
         /\ crons[jobs[a]] = [entries |-> <<[spec |-> "0 */1 * * *", appID |-> a]>>,
                              running |-> TRUE]

\* C10: when a Configure call returns an error, the app's key in jobs, the
\* entries of its cron and whether the cron runs are as they were before the
\* call changed anything
C10_ErrorLeavesSchedule ==
    [][\A k \in CfgIds :
         (Returns(k) /\ cfg'[k].ret # Nil) =>
            IF mtx = k THEN Schedule(cfg[k].appID)' = before
            ELSE jobs' = jobs /\ crons' = crons]_vars

\* this step has on the registry the effect of Stop(a): no key of jobs changes,
\* no cron is made or dropped, no entry changes, the cron under jobs[a] (if
\* any) does not run afterwards and every other cron runs as it did
StopEffect(a) ==
    /\ jobs' = jobs
    /\ DOMAIN crons' = DOMAIN crons
    /\ \A j \in DOMAIN crons :
         /\ crons'[j].entries = crons[j].entries
         /\ crons'[j].running = (crons[j].running /\ j # jobs[a])

\* this step is a call of Stop by a handler
StopStep == external' # external /\ cfg' = cfg /\ apps' = apps

\* C11: Stop(a) stops the cron of a when jobs has one and changes nothing
\* otherwise; it keeps the key in jobs and touches no other app's cron. A
\* Configure that returns nil for an enabled spec and found the key in jobs
\* keeps the same cron object under the key, with exactly one entry, running.
\* A Configure that read "@never" or "" has exactly the effect of Stop
C11_StopKeepsJob ==
    /\ [][StopStep => \E a \in Apps : StopEffect(a)]_vars
    /\ [][\A k \in CfgIds :
            (Configured(k) /\ jobs[cfg[k].appID] # 0) =>
              LET a == cfg[k].appID IN
              /\ jobs' = jobs
              /\ DOMAIN crons' = DOMAIN crons
              /\ crons'[jobs[a]].running
              /\ Len(crons'[jobs[a]].entries) = 1
              /\ \A j \in DOMAIN crons : j # jobs[a] => crons'[j] = crons[j]]_vars
    /\ [][\A k \in CfgIds :
            (Returns(k) /\ cfg[k].pc = "resolve") => StopEffect(cfg[k].appID)]_vars

\* a Configure call with an enabled spec is about to start again the cron that
\* a Stop left registered and stopped, while the other app's cron runs
C11_Witness ==
    \E k \in CfgIds :
        /\ cfg[k].pc = "start" /\ cfg[k].ok
        /\ jobs[cfg[k].appID] = cfg[k].job
        /\ ~crons[cfg[k].job].running
        /\ Len(crons[cfg[k].job].entries) = 1
        /\ \E j \in DOMAIN crons : j # cfg[k].job /\ crons[j].running

\* the statements of the steps that come before the status is set (lines 160-225)
SyncSteps == {"getApp", "syncLicense", "tempDir", "getArchive", "getUpdates", "lastUpdateAtTime"}

\* the call has returned from a failed synchronous step
FailedSync(c) ==
    /\ cfu[c].pc = "done"
    /\ cfu[c].at \in SyncSteps
    /\ cfu[c].ret.err # Nil \/ cfu[c].t # Nil

\* C12: a call that failed at a synchronous step has not set the status
\* "running"; a call that has set it had obtained a non-empty release list and
\* had written the last-checked time; and every step that makes the status
\* "running" is the status write of a call with a non-empty list that goes on
\* to start its goroutine
C12_FailedCallNotRunning ==
    /\ [](\A c \in CallIds :
            /\ FailedSync(c) => "set" \notin cfu[c].did /\ batch[c].pc = "none"
            /\ (cfu[c].pc = "done" /\ cfu[c].ret.err # Nil) => "set" \notin cfu[c].did
            /\ "set" \in cfu[c].did =>
                  /\ Len(cfu[c].updates) >= 1
                  /\ cfu[c].t = Nil
                  /\ {"clear", "sync", "query"} \subseteq cfu[c].did)
    /\ [][(taskStatus' # taskStatus /\ taskStatus'.status = "running") =>
            \E c \in CallIds :
              /\ cfu[c].pc = "setTaskStatus" /\ cfu'[c].pc = "spawn"
              /\ Len(cfu[c].updates) >= 1]_vars

\* one call failed at the upstream query and another at the last-checked write,
\* and the status is not "running"
C12_Witness ==
    \E c, k \in CallIds :
        /\ FailedSync(c) /\ cfu[c].at = "getUpdates" /\ cfu[c].ret.err # Nil
        /\ FailedSync(k) /\ cfu[k].at = "lastUpdateAtTime" /\ cfu[k].t # Nil
        /\ Len(cfu[k].updates) >= 1
        /\ taskStatus.status # "running"

\* the call has returned after an upstream query that gave releases and a
\* last-checked write that succeeded
FoundReleases(c) ==
    /\ cfu[c].pc = "done"
    /\ Len(cfu[c].updates) >= 1
    /\ cfu[c].t = Nil
    /\ "query" \in cfu[c].did

\* C13: a goroutine exists only for a call that has written the status
\* "running" before; a call that found N >= 1 releases has either written the
\* status, started the goroutine and returned (N, nil), or failed to write the
\* status, started no goroutine and returned (0, error); a call returns a count
\* other than 0 only with its goroutine started; and the step that returns N
\* starts the goroutine and leaves it before its first download
C13_StatusThenStagingThenReturn ==
    /\ [](\A c \in CallIds :
            /\ batch[c].pc # "none" => "set" \in cfu[c].did
            /\ FoundReleases(c) =>
                  \/ /\ cfu[c].at = "spawn"
                     /\ "set" \in cfu[c].did
                     /\ cfu[c].ret = [n |-> Len(cfu[c].updates), err |-> Nil]
                     /\ batch[c].pc # "none"
                  \/ /\ cfu[c].at = "setTaskStatus"
                     /\ "set" \notin cfu[c].did
                     /\ cfu[c].ret.n = 0 /\ cfu[c].ret.err # Nil
                     /\ batch[c].pc = "none"
            /\ cfu[c].ret.n # 0 => batch[c].pc # "none" /\ cfu[c].ret.err = Nil)
    /\ [][\A c \in CallIds :
            (cfu[c].pc # "done" /\ cfu'[c].pc = "done" /\ cfu'[c].ret.n # 0) =>
               /\ batch[c].pc = "none"
               /\ batch'[c].pc = "download" /\ batch'[c].attempts = <<>>
               /\ taskStatus' = taskStatus]_vars

\* one call has returned MaxUpdates with its goroutine before the first
\* download; another found releases, failed to write the status and returned 0
C13_Witness ==
    \E c, k \in CallIds :
        /\ FoundReleases(c) /\ cfu[c].ret = [n |-> MaxUpdates, err |-> Nil]
        /\ batch[c].pc = "download" /\ batch[c].attempts = <<>>
        /\ FoundReleases(k) /\ cfu[k].at = "setTaskStatus" /\ batch[k].pc = "none"

\* C14: a call made by a cron entry has deploy, skipPreflights and isCLI false
\* and starts no deploy, on the path without releases or in its goroutine; no
\* step of a call changes the jobs map or a cron, so when a call of an entry
\* has returned an error the entry of its app is still there and may fire
C14_TickNeverDeploys ==
    /\ [](\A c \in CallIds :
            cfu[c].by = "tick" =>
               /\ ~cfu[c].deploy /\ ~cfu[c].skipPreflights /\ ~cfu[c].isCLI
               /\ cfu[c].deploys = <<>> /\ "deploy" \notin cfu[c].did
               /\ batch[c].deploys = <<>> /\ batch[c].reports = <<>>
               /\ batch[c].pc \notin {"deploy", "report"}
               /\ (cfu[c].pc = "done" /\ cfu[c].ret.err # Nil) =>
                      \A a \in Apps : jobs[a] # 0 => TickReady(a))
    /\ [][jobs' = jobs /\ crons' = crons]_vars

\* the first call of the entry returned an error; the entry fired again and
\* that call's goroutine has downloaded MaxUpdates releases, the last one with
\* success, and is done without a deploy
C14_Witness ==
    /\ cfu[1].by = "tick" /\ cfu[1].pc = "done" /\ cfu[1].ret.err # Nil
    /\ cfu[2].by = "tick" /\ cfu[2].appID = cfu[1].appID
    /\ batch[2].pc = "done"
    /\ Len(batch[2].attempts) = MaxUpdates
    /\ Last(batch[2].attempts).err = Nil
    /\ batch[2].deploys = <<>>

\* the current parent sequence of the first downstream of the app of call c
ParentSequence(c) == downstreams[cfu[c].appID][1]

\* C15: whenever a call (line 257) or its goroutine (line 286) starts a deploy
\* of a sequence, that sequence differs from the current parent sequence of the
\* app's first downstream at that moment
C15_EveryDeployGuarded ==
    [][\A c \in CallIds :
         /\ Len(cfu'[c].deploys) > Len(cfu[c].deploys) =>
               Last(cfu'[c].deploys) # ParentSequence(c)
         /\ Len(batch'[c].deploys) > Len(batch[c].deploys) =>
               Last(batch'[c].deploys) # ParentSequence(c)]_vars

\* this step is the gate read (line 146) of call c while the goroutine of a
\* call for another app is downloading
ReadsGateDuringOtherBatch(c) ==
    /\ cfu[c].pc = "getTaskStatus" /\ cfu'[c].pc # "getTaskStatus"
    /\ \E k \in CallIds \ {c} :
         cfu[k].appID # cfu[c].appID /\ batch[k].pc = "download"

\* C16 as claimed: a call for an app that reads the gate while the batch of
\* another app is in flight goes on to its own discovery (unless the read of
\* the status itself failed)
C16_OtherAppStillDiscovers ==
    [][\A c \in CallIds :
         (ReadsGateDuringOtherBatch(c) /\ cfu'[c].err = Nil) =>
            cfu'[c].pc = "clearTaskStatus"]_vars

\* C16 amended: the gate is shared by all apps; a call that reads the status
\* "running" while the batch of another app is in flight returns (0, nil) at
\* once, and such a call has made no query and has no goroutine
C16_GateSharedByApps ==
    /\ [][\A c \in CallIds :
            (ReadsGateDuringOtherBatch(c) /\ cfu'[c].err = Nil /\ taskStatus.status = "running") =>
               /\ cfu'[c].pc = "done"
               /\ cfu'[c].ret = [n |-> 0, err |-> Nil]
               /\ taskStatus' = taskStatus]_vars
    /\ [](\A c \in CallIds :
            (cfu[c].pc = "done" /\ cfu[c].at = "getTaskStatus") =>
               /\ {"clear", "query", "set"} \cap cfu[c].did = {}
               /\ batch[c].pc = "none")

\* a call for a2 has returned at the gate while the goroutine of a call for a1
\* still downloads
C16_Witness ==
    \E c, k \in CallIds :
        /\ cfu[c].appID = "a2" /\ cfu[k].appID = "a1"
        /\ cfu[c].pc = "done" /\ cfu[c].at = "getTaskStatus" /\ cfu[c].err = Nil
        /\ batch[k].pc = "download" /\ batch[k].index = MaxUpdates
        /\ taskStatus.status = "running"

\* a cron spec with minute m and the hour field "h/4"
EveryFourHours(m, h) == ToString(m) \o " " \o ToString(h) \o "/4 * * *"

\* the number before "/4" in the hour field of such a spec
HourField(r) == CHOOSE h \in Hours : \E m \in Minutes : r = EveryFourHours(m, h)

\* the hours of the day at which the hour field "h/4" fires: h, h + 4, ... up to 23
FiringHours(h) == {x \in Hours : x >= h /\ (x - h) % 4 = 0}

\* the two resolutions happened in one minute of the clock
SameMinute == resolver.t1.hour = resolver.t2.hour /\ resolver.t1.minute = resolver.t2.minute

\* C17: "@default" resolved twice within one minute gives the same cron spec;
\* the cron spec it gives is "m h/4 * * *" with m the minute (0..59) and h the
\* hour modulo 4 (0..3), whose firing hours repeat every 4 hours around the
\* clock; every other enabled spec is handed on as it is
C17_DefaultResolution ==
    /\ (resolver.pc = "twice" /\ resolver.spec = "@default" /\ SameMinute) =>
           resolver.r1 = resolver.r2
    /\ (resolver.pc # "idle" /\ resolver.spec = "@default") =>
          /\ \E m \in 0..59, h \in 0..3 : resolver.r1 = EveryFourHours(m, h)
          /\ resolver.r1 = EveryFourHours(resolver.t1.minute, resolver.t1.hour % 4)
          /\ LET fires == FiringHours(HourField(resolver.r1)) IN
             \A x \in Hours : x \in fires <=> (x + 4) % 24 \in fires
    /\ (resolver.pc # "idle" /\ resolver.spec # "@default") =>
           resolver.r1 = resolver.spec
    /\ (resolver.pc = "twice" /\ resolver.spec # "@default") =>
           resolver.r2 = resolver.spec

\* "@default" was resolved at 23:59:00 and again at 23:59:59, with one result
C17_Witness ==
    /\ resolver.pc = "twice" /\ resolver.spec = "@default"
    /\ resolver.t1 = [hour |-> 23, minute |-> 59, second |-> 0]
    /\ resolver.t2 = [hour |-> 23, minute |-> 59, second |-> 59]
    /\ resolver.r2 = "59 3/4 * * *"

\* C18: while the goroutine of some call still has a release to download, the
\* task status is "running", and no step of a CheckForUpdates call (the clear
\* of line 156, the write of line 270) changes the status
C18_StatusStaysRunning ==
    /\ []((Downloading # {}) => taskStatus.status = "running")
    /\ [][(Downloading # {} /\ cfu' # cfu) => taskStatus' = taskStatus]_vars

\* the goroutine of call c is started and has not run its deferred removal yet
BatchUsesDir(c) == batch[c].pc \in {"download", "deploy", "report", "cleanup"}

\* C19: the archive directory of a call is removed at most once; a call that
\* has returned without starting a goroutine (an error after TempDir, no
\* release found, a failed status write) has removed its directory itself;
\* while the goroutine of a call runs the directory exists and no one has
\* removed it; and when the goroutine is done it has attempted every release
\* and it, not the call, has removed the directory
C19_ArchiveDirRemovedOnce ==
    \A c \in CallIds :
        LET f == cfu[c] IN
        /\ Len(f.removals) <= 1
        /\ f.archiveDir = "none" => f.removals = <<>> /\ batch[c].pc = "none"
        /\ (f.pc = "done" /\ f.archiveDir # "none" /\ batch[c].pc = "none") =>
               f.archiveDir = "removed" /\ f.removals = <<"call">>
        /\ (f.pc \notin {"idle", "done", "panic"} /\ f.archiveDir # "none") =>
               f.archiveDir = "exists" /\ f.removals = <<>>
        /\ BatchUsesDir(c) => f.archiveDir = "exists" /\ f.removals = <<>>
        /\ batch[c].pc = "done" =>
               /\ f.archiveDir = "removed" /\ f.removals = <<"goroutine">>
               /\ Len(batch[c].attempts) = Len(f.updates)

\* one call failed at the upstream query and removed its directory; the
\* goroutine of another, whose downloads all failed, removed the other directory
C19_Witness ==
    \E c, k \in CallIds :
        /\ cfu[c].pc = "done" /\ cfu[c].at = "getUpdates" /\ cfu[c].removals = <<"call">>
        /\ batch[k].pc = "done" /\ cfu[k].removals = <<"goroutine">>
        /\ Len(batch[k].attempts) = MaxUpdates
        /\ \A i \in DOMAIN batch[k].attempts : batch[k].attempts[i].err # Nil

\* this step is the return of nil by a Configure call that changed the
\* registry: it stopped the job (line 74) or installed its entry (lines 102-124)
Modifies(k) == Returns(k) /\ cfg'[k].ret = Nil /\ cfg[k].pc \in {"resolve", "start"}

\* the spec a Configure frame holds: as read from the store, later as resolved
Held(f) == IF f.pc \in {"lock", "resolve"} THEN f.a.UpdateCheckerSpec ELSE f.cronSpec

\* two specs put the registry of an app into the same state
SameSchedule(c1, c2) == (IsDisabled(c1) /\ IsDisabled(c2)) \/ c1 = c2

\* C20: a Configure call never changes the registry of an app with a spec it
\* read before the store's spec was changed when another call for that app
\* has already changed the registry with the spec the store holds now and
\* the two specs give different schedules, i.e. a spec read earlier never
\* replaces one read later
C20_NoStaleCadenceOverwrite ==
    [][\A k \in CfgIds :
         (Modifies(k) /\ ~cfg[k].fresh) =>
            ~\E j \in CfgIds \ {k} :
                /\ cfg[j].pc = "done" /\ cfg[j].appID = cfg[k].appID /\ cfg[j].fresh
                /\ ~SameSchedule(Held(cfg[k]), Held(cfg[j]))]_vars

\* C21: a goroutine starts at most one report, with the deployed sequence and
\* the call's skipPreflights and isCLI, and only once the deploy of the
\* downloaded last release has returned; once that deploy has returned, with
\* or without an error, the report is started; there is none for a call
\* without deploy or when the last download failed; and the step in which the
\* report ends, with or without an error, changes nothing but the report
C21_ReportOnceAfterDeploy ==
    /\ [](\A c \in CallIds :
            LET b == batch[c] IN
            /\ Len(b.reports) <= 1
            /\ (b.report = "none") <=> (b.reports = <<>>)
            /\ b.reports # <<>> =>
                  /\ cfu[c].deploy
                  /\ Len(b.attempts) = Len(cfu[c].updates)
                  /\ Last(b.attempts).err = Nil
                  /\ b.deploys = <<Last(b.attempts).sequence>>
                  /\ b.reports[1] = [sequence |-> b.deploys[1],
                                     skipPreflights |-> cfu[c].skipPreflights,
                                     isCLI |-> cfu[c].isCLI]
            /\ (b.deploys # <<>> /\ b.pc \in {"cleanup", "done"}) => b.reports # <<>>)
    /\ [][\A c \in CallIds :
            batch'[c].report # batch[c].report =>
               \/ batch[c].report = "none" /\ batch[c].pc = "report"
               \/ /\ batch[c].report = "running"
                  /\ batch' = [batch EXCEPT ![c].report = batch'[c].report]
                  /\ UNCHANGED <<taskStatus, appVersions, downstreams, cfu>>]_vars

\* the only call's deploy of its last release failed (the parent sequence is
\* not that release's), its goroutine is done and the directory removed,
\* while the report it started has not ended yet
C21_Witness ==
    /\ cfu[2].pc = "idle"
    /\ batch[1].pc = "done" /\ batch[1].report = "running"
    /\ Len(batch[1].attempts) = MaxUpdates
    /\ Len(batch[1].deploys) = 1
    /\ downstreams[cfu[1].appID][1] # batch[1].deploys[1]
    /\ cfu[1].archiveDir = "removed"

\* the goroutine of a deploy=true call has attempted every release and the
\* download of the last one failed
FinalDownloadFailed(c) ==
    /\ cfu[c].deploy
    /\ Len(cfu[c].updates) >= 1
    /\ Len(batch[c].attempts) = Len(cfu[c].updates)
    /\ Last(batch[c].attempts).err # Nil

\* C22: when the download of the last release of a deploy=true batch has
\* failed, neither the goroutine nor its call has started a deploy, whatever
\* releases of the batch were downloaded before, and the goroutine only ends
C22_NoDeployWhenFinalFails ==
    \A c \in CallIds :
        FinalDownloadFailed(c) =>
            /\ batch[c].deploys = <<>>
            /\ cfu[c].deploys = <<>>
            /\ batch[c].pc \in {"cleanup", "done"}

\* the only call's goroutine is done: the first release was downloaded, the
\* last one failed, and the downloaded sequence is not the parent sequence
C22_Witness ==
    /\ cfu[2].pc = "idle"
    /\ FinalDownloadFailed(1)
    /\ batch[1].pc = "done"
    /\ Len(batch[1].attempts) = MaxUpdates
    /\ batch[1].attempts[1].err = Nil
    /\ downstreams[cfu[1].appID][1] # batch[1].attempts[1].sequence

\* C23: the jobs map and the crons are read and changed under the mutex only:
\* a step that changes them is a step of the Configure call that holds the
\* mutex, and a Stop called by a handler, which takes no part in a Configure
\* call, never runs while a Configure call holds the mutex
C23_RegistryUnderMutex ==
    [][/\ (jobs' # jobs \/ crons' # crons) =>
             \/ StopStep
             \/ \E k \in CfgIds : mtx = k /\ cfg'[k] # cfg[k]
       /\ StopStep => mtx = 0]_vars

\* C24: a call with no release found and deploy set always returns: it never
\* ends in a panic; with no version record of the app it returns the error
\* "no versions found"; with an empty downstream list it returns an error
C24_ZeroPathAlwaysReturns ==
    \A c \in CallIds :
        LET f == cfu[c] IN
        /\ f.pc # "panic"
        /\ (f.pc = "done" /\ f.at = "getVersions" /\ f.err = Nil) =>
               f.allVersions = <<>> /\ f.ret = [n |-> 0, err |-> "no versions found"]
        /\ (f.pc = "done" /\ f.at = "getParentSequence" /\ f.downstreamList = <<>>) =>
               f.ret.err # Nil

====
